---- MODULE Spec2Model ----
(***************************************************************************)
(* clsp: a command line LSP client (main.go).  The model covers the        *)
(* LSPClient session: NewLSPClient, SendRequest, SendNotification,         *)
(* ReadResponse, Initialize and Close, the child process at the other end  *)
(* of the pipes, and the contexts (deadlines) the calls are given.         *)
(*                                                                         *)
(* Bytes on the pipes are tokens [t, k, n, s]:                             *)
(*   t = "CL"   the bytes "Content-Length:"                                *)
(*   t = "H"    another header name with its colon (s names it)            *)
(*   t = "sp" / "cr" / "lf"   space, \r, \n                                *)
(*   t = "d"    a decimal digit n;  t = "-" a minus sign;  t = "a" a letter*)
(*   t = "{" / "}"   the braces of a JSON object                           *)
(*   t = "f"    one member of a JSON object: key k, value (n, s)           *)
(*   t = "c"    a further byte of a character that takes several bytes     *)
(***************************************************************************)
EXTENDS Integers, Sequences, FiniteSets, TLC

\* ---------------------------------------------------------------- bounds
MaxCalls == 1
MaxEmit == 2

\* ---------------------------------------------------------------- bytes
Tok(t, k, n, s) == [t |-> t, k |-> k, n |-> n, s |-> s]
CL == Tok("CL", "", 0, "")
Hdr(name) == Tok("H", "", 0, name)
SP == Tok("sp", "", 0, "")
CR == Tok("cr", "", 0, "")
LF == Tok("lf", "", 0, "")
Digit(n) == Tok("d", "", n, "")
Minus == Tok("-", "", 0, "")
Letter == Tok("a", "", 0, "")
LBrace == Tok("{", "", 0, "")
RBrace == Tok("}", "", 0, "")
Field(k, n, s) == Tok("f", k, n, s)
Cont == Tok("c", "", 0, "")

\* ---------------------------------------------------------------- strings
IsSpace(b) == b.t \in {"sp", "cr", "lf"}

RECURSIVE TrimLeft(_)
TrimLeft(s) == IF s # <<>> /\ IsSpace(Head(s)) THEN TrimLeft(Tail(s)) ELSE s

RECURSIVE TrimRight(_)
TrimRight(s) ==
    IF s # <<>> /\ IsSpace(s[Len(s)]) THEN TrimRight(SubSeq(s, 1, Len(s) - 1)) ELSE s

\* strings.TrimSpace
TrimSpace(s) == TrimRight(TrimLeft(s))

\* every header line is taken for the Content-Length line
HasPrefixAny(line) == line # <<>>

\* strings.CutPrefix(line, "Content-Length:")
HasPrefixCL(line) == line # <<>> /\ Head(line) = CL
CutPrefixCL(line) == Tail(line)

RECURSIVE DigitsValue(_)
DigitsValue(s) ==
    IF s = <<>> THEN 0 ELSE DigitsValue(SubSeq(s, 1, Len(s) - 1)) * 10 + s[Len(s)].n

AllDigits(s) == s # <<>> /\ \A i \in 1..Len(s) : s[i].t = "d"

\* strconv.Atoi: an optional sign followed by at least one digit
AtoiOk(s) ==
    IF s # <<>> /\ Head(s) = Minus THEN AllDigits(Tail(s)) ELSE AllDigits(s)
Atoi(s) ==
    IF s # <<>> /\ Head(s) = Minus THEN 0 - DigitsValue(Tail(s)) ELSE DigitsValue(s)

\* fmt.Sprintf("%d", n) for n >= 0
RECURSIVE Itoa(_)
Itoa(n) == IF n < 10 THEN <<Digit(n)>> ELSE Itoa(n \div 10) \o <<Digit(n % 10)>>

\* bufio.Reader.ReadString('\n'): position of the first \n, 0 when there is none
RECURSIVE IndexLF(_, _)
IndexLF(s, i) ==
    IF i > Len(s) THEN 0 ELSE IF s[i] = LF THEN i ELSE IndexLF(s, i + 1)

\* one byte more than asked for is consumed
DropMore(s, n) == SubSeq(s, n + 2, Len(s))

Drop(s, n) == SubSeq(s, n + 1, Len(s))

\* ---------------------------------------------------------------- JSON
NoError == [set |-> FALSE, Code |-> 0, Message |-> ""]
JSONRPCError(code, msg) == [set |-> TRUE, Code |-> code, Message |-> msg]

\* params is omitempty; text outside ASCII is written as UTF-8, here one
\* character of two bytes at the end of the value
MarshalParams(params) ==
    IF params = "nil" THEN <<>>
    ELSE IF params = "text" THEN <<Field("params", 0, "text"), Cont>>
    ELSE <<Field("params", 0, "val")>>

\* the id member is written even when the request has none
MarshalRequestWithID(hasID, id, method, params) ==
    <<LBrace, Field("jsonrpc", 0, "2.0"), Field("id", id, "int"), Field("method", 0, method)>>
    \o MarshalParams(params)
    \o <<RBrace>>

\* json.Marshal(JSONRPCRequest): id and params are omitempty
MarshalRequest(hasID, id, method, params) ==
    <<LBrace, Field("jsonrpc", 0, "2.0")>>
    \o (IF hasID THEN <<Field("id", id, "int")>> ELSE <<>>)
    \o <<Field("method", 0, method)>>
    \o MarshalParams(params)
    \o <<RBrace>>

\* json.Marshal fails on a value it cannot encode
MarshalOk(params) == params # "bad"

\* the bytes are one JSON object
ValidJSON(content) ==
    /\ Len(content) >= 2
    /\ content[1] = LBrace
    /\ content[Len(content)] = RBrace
    /\ \A i \in 2..(Len(content) - 1) :
           content[i].t = "f" \/ (content[i].t = "c" /\ i > 2)

HasMember(content, k) == \E i \in 1..Len(content) : content[i].t = "f" /\ content[i].k = k
\* the last member with key k wins
Member(content, k) ==
    LET i == CHOOSE j \in 1..Len(content) :
                 /\ content[j].t = "f" /\ content[j].k = k
                 /\ \A l \in (j + 1)..Len(content) : ~(content[l].t = "f" /\ content[l].k = k)
    IN content[i]

\* json.Unmarshal(content, &response) succeeds
UnmarshalOk(content) ==
    /\ ValidJSON(content)
    /\ HasMember(content, "id") => Member(content, "id").s \in {"int", "null"}

\* the decoded JSONRPCResponse
Unmarshal(content) ==
    [ID |-> IF HasMember(content, "id") /\ Member(content, "id").s = "int"
            THEN Member(content, "id").n ELSE 0,
     Result |-> IF HasMember(content, "result") THEN Member(content, "result").s ELSE "null",
     Error |-> IF HasMember(content, "error") /\ Member(content, "error").s # "null"
               THEN JSONRPCError(Member(content, "error").n, Member(content, "error").s)
               ELSE NoError]

\* the second decode, into struct{Method string}
NotificationMethod(content) ==
    IF HasMember(content, "method") THEN Member(content, "method").s ELSE ""

\* the number of characters of the content
CharLen(content) == Len(SelectSeq(content, LAMBDA b : b.t # "c"))

\* the header announces the number of characters
FrameOutChars(content) == <<CL, SP>> \o Itoa(CharLen(content)) \o <<CR, LF, CR, LF>> \o content

\* header + content as SendRequest and SendNotification build it; len(content)
\* counts bytes
FrameOut(content) == <<CL, SP>> \o Itoa(Len(content)) \o <<CR, LF, CR, LF>> \o content

\* ---------------------------------------------------------------- the child's output
\* one header line, without its line ending
CLLine(n) == <<CL, SP>> \o Itoa(n)
OtherLine == <<Hdr("Content-Type"), SP, Letter>>

RECURSIVE HeaderBlock(_)
HeaderBlock(lines) ==
    IF lines = <<>> THEN <<CR, LF>>
    ELSE Head(lines) \o <<CR, LF>> \o HeaderBlock(Tail(lines))

Frame(lines, body) == HeaderBlock(lines) \o body
Framed(body) == Frame(<<CLLine(Len(body))>>, body)

ResultBody(id) ==
    <<LBrace, Field("jsonrpc", 0, "2.0"), Field("id", id, "int"), Field("result", 0, "val"), RBrace>>
ErrorBody(id) ==
    <<LBrace, Field("jsonrpc", 0, "2.0"), Field("id", id, "int"),
      Field("error", 0 - 32601, "Method not found"), RBrace>>
NotificationBody ==
    <<LBrace, Field("jsonrpc", 0, "2.0"),
      Field("method", 0, "textDocument/publishDiagnostics"), Field("params", 0, "val"), RBrace>>
ServerRequestBody(id) ==
    <<LBrace, Field("jsonrpc", 0, "2.0"), Field("id", id, "int"),
      Field("method", 0, "workspace/configuration"), RBrace>>

\* the ids the child answers with
ChildIds == 1..MaxCalls

\* what a child that keeps to the framing may write to its stdout in one go
ChildChunks ==
    {Framed(ResultBody(i)) : i \in ChildIds}
    \cup {Framed(ErrorBody(1)), Framed(NotificationBody)}

\* "Content-Length: abc" and "Content-Length: -5"
BadLengthLine == <<CL, SP, Letter, Letter, Letter>>
NegLengthLine == <<CL, SP, Minus, Digit(5)>>

\* an answer that has neither a result nor an error member
EmptyReplyBody(id) == <<LBrace, Field("jsonrpc", 0, "2.0"), Field("id", id, "int"), RBrace>>

\* an answer cut off after its third byte
ShortBody == SubSeq(ResultBody(1), 1, 3)

\* the answer to a message the server could not tie to a request: "id": null
UntiedErrorBody ==
    <<LBrace, Field("jsonrpc", 0, "2.0"), Field("id", 0, "null"),
      Field("error", 0 - 32700, "Parse error"), RBrace>>

\* an answer without an id member
NoIdBody == <<LBrace, Field("jsonrpc", 0, "2.0"), Field("result", 0, "val"), RBrace>>

\* the header blocks that carry Content-Length: n once, among other header lines
HeaderVariants(n) ==
    {<<CLLine(n)>>, <<OtherLine, CLLine(n)>>, <<CLLine(n), OtherLine>>,
     <<OtherLine, CLLine(n), OtherLine>>}

\* output of a child that does not keep to the protocol: no length, lengths
\* that are zero, not a number or negative, header lines around
\* Content-Length, answers to other requests, requests of its own, answers
\* without result or without id, a body shorter than announced
ReadChunks ==
    {Framed(ResultBody(i)) : i \in 1..(MaxCalls + 1)}
    \cup {Frame(<<OtherLine>>, ResultBody(1)),
          Frame(<<CLLine(0)>>, <<>>),
          Frame(<<BadLengthLine>>, ResultBody(1)),
          Frame(<<NegLengthLine>>, ResultBody(1)),
          Frame(<<OtherLine, CLLine(Len(ResultBody(1)))>>, ResultBody(1)),
          Frame(<<CLLine(Len(ResultBody(1))), OtherLine>>, ResultBody(1)),
          Framed(ServerRequestBody(1)),
          Framed(EmptyReplyBody(1)),
          Framed(UntiedErrorBody),
          Framed(NoIdBody),
          Frame(<<CLLine(Len(ResultBody(1)))>>, ShortBody)}

\* ---------------------------------------------------------------- state
VARIABLES
    started,        \* NewLSPClient returned a client
    id,             \* LSPClient.id, the next request id
    streams,        \* the client's ends of stdin, stdout, stderr: "none", "open", "closed";
                    \* stderr is "full" when the pipe holds all it can and nothing reads it
    stdout,         \* bytes the child wrote that the reader has not consumed
    child,          \* "none", "alive", "exited", "killed"
    emitted,        \* number of chunks the child has written
    ctxDone,        \* the contexts whose deadline has elapsed
    op,             \* the exported call in progress or last returned
    pc,             \* position inside it
    reqCtx,         \* ctx of the SendRequest in progress
    expectedID,     \* ReadResponse's expectedID
    contentLength,  \* ReadResponse's contentLength
    ret,            \* value returned by the last SendRequest or exported call
    calls,          \* exported calls made so far
    writes,         \* every c.stdin.Write in order, with its outcome
    log,            \* the c.logger calls since the last exported call began, in order
    hist            \* bookkeeping about the run, read by the properties only

vars == <<started, id, streams, stdout, child, emitted, ctxDone, op, pc, reqCtx,
          expectedID, contentLength, ret, calls, writes, log, hist>>

Ctxs == {"session", "call", "close"}

NoResponse == [ID |-> 0, Result |-> "null", Error |-> NoError]
Ok == [err |-> <<>>, hasResp |-> FALSE, resp |-> NoResponse]
Fail(chain) == [err |-> chain, hasResp |-> FALSE, resp |-> NoResponse]
Got(r) == [err |-> <<>>, hasResp |-> TRUE, resp |-> r]
\* fmt.Errorf("...: %w", err)
Wrap(msg, r) == [r EXCEPT !.err = <<msg>> \o r.err, !.hasResp = FALSE, !.resp = NoResponse]

NoHist == [assigned |-> <<>>,       \* ids SendRequest took, in call order
           seenCL |-> FALSE,        \* a Content-Length line was read in this header block
           logStart |-> 0,          \* the place in log of the current SendRequest's first line
           expiredInRead |-> FALSE, \* reqCtx elapsed while a read was blocked on an empty pipe
           taken |-> <<>>,          \* bytes the current ReadResponse took from stdout
           block |-> <<>>,          \* the lines read in the current header block
           spawn |-> "new"]         \* the step of NewLSPClient that failed, or "none"

Init ==
    /\ started = FALSE
    /\ id = 0
    /\ streams = [stdin |-> "none", stdout |-> "none", stderr |-> "none"]
    /\ stdout = <<>>
    /\ child = "none"
    /\ emitted = 0
    /\ ctxDone = {}
    /\ op = "none"
    /\ pc = "new"
    /\ reqCtx = "session"
    /\ expectedID = 0
    /\ contentLength = 0
    /\ ret = Ok
    /\ calls = 0
    /\ writes = <<>>
    /\ log = <<>>
    /\ hist = NoHist

\* ---------------------------------------------------------------- NewLSPClient
\* the steps of NewLSPClient that can fail: the three pipes and cmd.Start
SpawnSteps == {"StdinPipe", "StdoutPipe", "StderrPipe", "Start"}

\* only a failure of cmd.Start is looked at
SpawnFailsAtStart(failure, done) == failure = "Start" \/ "session" \in done

\* if err != nil { return nil, err }, after each of the four steps; Start
\* refuses a context that is done
SpawnFails(failure, done) == failure \in SpawnSteps \/ "session" \in done

\* exec.CommandContext + the three pipes + cmd.Start; failure is the step
\* whose system call fails, "none" when they all succeed
NewLSPClient(failure) ==
    /\ pc = "new"
    /\ IF ~SpawnFails(failure, ctxDone)
       THEN /\ started' = TRUE
            /\ id' = 1
            /\ streams' = [stdin |-> "open", stdout |-> "open", stderr |-> "open"]
            /\ child' = "alive"
            /\ pc' = "idle"
            /\ ret' = Ok
       ELSE /\ pc' = "failed"
            /\ ret' = Fail(<<IF failure \in SpawnSteps THEN failure ELSE "context deadline exceeded">>)
            /\ UNCHANGED <<started, id, streams, child>>
    /\ op' = "NewLSPClient"
    /\ hist' = [hist EXCEPT !.spawn = failure]
    /\ UNCHANGED <<stdout, emitted, ctxDone, reqCtx, expectedID, contentLength,
                   calls, writes, log>>

\* ---------------------------------------------------------------- writing
\* the outcome of the write is not looked at
WriteUnchecked == TRUE

\* c.stdin.Write succeeds while the pipe has a reader and our end is open
WriteOk == streams.stdin = "open" /\ child = "alive"

Written(hasID, n, method, params) ==
    [hasID |-> hasID, id |-> n, method |-> method,
     bytes |-> FrameOut(MarshalRequest(hasID, n, method, params)), ok |-> WriteOk]

\* c.logger.Debug(msg, ...) and c.logger.Warn(msg, ...)
Logged(msg, n, str) == [msg |-> msg, n |-> n, s |-> str]

\* Close goes from the shutdown request straight to closing the streams
AfterSendRequestNoExit(o) ==
    IF o = "Initialize" THEN "initResp" ELSE IF o = "Close" THEN "closeStreams" ELSE "done"

\* where a SendRequest returns to
AfterSendRequest(o) ==
    IF o = "Initialize" THEN "initResp" ELSE IF o = "Close" THEN "closeExit" ELSE "done"

\* the counter is read but not advanced
NextIDStuck(n) == n

\* the counter skips a value
NextIDSkip(n) == n + 2

\* c.id++
NextID(n) == n + 1

\* SendRequest up to the call of ReadResponse
SendRequestWrite(o, ctx, method, params) ==
    /\ id' = NextID(id)
    /\ reqCtx' = ctx
    /\ expectedID' = id
    /\ contentLength' = 0
    /\ log' = <<Logged("Sending LSP request", id, method)>>
    /\ hist' = [hist EXCEPT !.assigned = Append(@, id), !.seenCL = FALSE,
                            !.logStart = 1, !.expiredInRead = FALSE,
                            !.taken = <<>>, !.block = <<>>]
    /\ IF ~MarshalOk(params)
       THEN /\ ret' = Fail(<<"failed to marshal request">>)
            /\ pc' = AfterSendRequest(o)
            /\ UNCHANGED writes
       ELSE /\ writes' = Append(writes, Written(TRUE, id, method, params))
            /\ IF WriteOk
               THEN /\ pc' = "check"
                    /\ ret' = Ok
               ELSE /\ ret' = Fail(<<"failed to write request", "EPIPE">>)
                    /\ pc' = AfterSendRequest(o)

\* SendNotification, whole: its error and what it writes
NotificationResult(params) ==
    IF ~MarshalOk(params) THEN Fail(<<"failed to marshal notification">>)
    ELSE IF ~WriteOk THEN Fail(<<"failed to write notification", "EPIPE">>)
    ELSE Ok
NotificationWrites(method, params) ==
    IF MarshalOk(params) THEN Append(writes, Written(FALSE, 0, method, params)) ELSE writes
NotificationLog(method) == Append(log, Logged("Sending LSP notification", 0, method))

\* ---------------------------------------------------------------- exported calls
\* a client that is not inside a call and has not been closed
Ready == started /\ pc \in {"idle", "done"} /\ op # "Close"

CanCall == Ready /\ calls < MaxCalls

\* a call of SendRequest by the user of the client
SendRequestCall(ctx, method, params) ==
    /\ op' = "SendRequest"
    /\ calls' = calls + 1
    /\ ctxDone' = ctxDone \ ({ctx} \cap {"call"})
    /\ SendRequestWrite("SendRequest", ctx, method, params)
    /\ UNCHANGED <<started, streams, stdout, child, emitted>>

CallSendRequest(ctx, params) ==
    /\ CanCall
    /\ SendRequestCall(ctx, "textDocument/hover", params)

SendNotification(method, params) ==
    /\ CanCall
    /\ op' = "SendNotification"
    /\ calls' = calls + 1
    /\ pc' = "done"
    /\ ret' = NotificationResult(params)
    /\ writes' = NotificationWrites(method, params)
    /\ log' = <<Logged("Sending LSP notification", 0, method)>>
    /\ UNCHANGED <<started, id, streams, stdout, child, emitted, ctxDone, reqCtx,
                   expectedID, contentLength, hist>>

InitializeCall(ctx) ==
    /\ op' = "Initialize"
    /\ calls' = calls + 1
    /\ ctxDone' = ctxDone \ ({ctx} \cap {"call"})
    /\ SendRequestWrite("Initialize", ctx, "initialize", "val")
    /\ UNCHANGED <<started, streams, stdout, child, emitted>>

Initialize(ctx) ==
    /\ CanCall
    /\ InitializeCall(ctx)

\* Initialize that returns nil without sending "initialized"
InitializeFinishSilent ==
    /\ pc = "initResp"
    /\ pc' = "done"
    /\ ret' = IF ret.err # <<>> THEN Wrap("failed to send initialize request", ret)
              ELSE IF ret.resp.Error.set
              THEN [err |-> <<"LSP initialize error">>, hasResp |-> FALSE,
                    resp |-> [NoResponse EXCEPT !.Error = ret.resp.Error]]
              ELSE Ok
    /\ UNCHANGED <<started, id, streams, stdout, child, emitted, ctxDone, op, reqCtx,
                   expectedID, contentLength, calls, writes, log, hist>>

\* Initialize that does not look at response.Error
InitializeFinishBlind ==
    /\ pc = "initResp"
    /\ pc' = "done"
    /\ IF ret.err # <<>>
       THEN /\ ret' = Wrap("failed to send initialize request", ret)
            /\ UNCHANGED <<writes, log>>
       ELSE /\ writes' = NotificationWrites("initialized", "val")
            /\ log' = NotificationLog("initialized")
            /\ ret' = IF NotificationResult("val").err # <<>>
                      THEN Wrap("failed to send initialized notification", NotificationResult("val"))
                      ELSE Ok
    /\ UNCHANGED <<started, id, streams, stdout, child, emitted, ctxDone, op, reqCtx,
                   expectedID, contentLength, calls, hist>>

\* Initialize after its SendRequest returned
InitializeFinish ==
    /\ pc = "initResp"
    /\ pc' = "done"
    /\ IF ret.err # <<>>
       THEN /\ ret' = Wrap("failed to send initialize request", ret)
            /\ UNCHANGED <<writes, log>>
       ELSE IF ret.resp.Error.set
       THEN /\ ret' = [err |-> <<"LSP initialize error">>, hasResp |-> FALSE,
                       resp |-> [NoResponse EXCEPT !.Error = ret.resp.Error]]
            /\ UNCHANGED <<writes, log>>
       ELSE /\ writes' = NotificationWrites("initialized", "val")
            /\ log' = NotificationLog("initialized")
            /\ ret' = IF NotificationResult("val").err # <<>>
                      THEN Wrap("failed to send initialized notification", NotificationResult("val"))
                      ELSE Ok
    /\ UNCHANGED <<started, id, streams, stdout, child, emitted, ctxDone, op, reqCtx,
                   expectedID, contentLength, calls, hist>>

\* the shutdown request is sent under the context of the session
CloseUnderSession ==
    /\ Ready
    /\ op' = "Close"
    /\ ctxDone' = ctxDone
    /\ SendRequestWrite("Close", "session", "shutdown", "nil")
    /\ UNCHANGED <<started, streams, stdout, child, emitted, calls>>

\* Close: a fresh 5s context, then SendRequest(ctx, "shutdown", nil)
Close ==
    /\ Ready
    /\ op' = "Close"
    /\ ctxDone' = ctxDone \ {"close"}
    /\ SendRequestWrite("Close", "close", "shutdown", "nil")
    /\ UNCHANGED <<started, streams, stdout, child, emitted, calls>>

\* c.SendNotification("exit", nil), its error dropped
CloseExit ==
    /\ pc = "closeExit"
    /\ pc' = "closeStreams"
    /\ writes' = NotificationWrites("exit", "nil")
    /\ log' = NotificationLog("exit")
    /\ UNCHANGED <<started, id, streams, stdout, child, emitted, ctxDone, op, reqCtx,
                   expectedID, contentLength, ret, calls, hist>>

\* stdin.Close, stdout.Close, stderr.Close; what was unread is gone with the pipe
CloseStreams ==
    /\ pc = "closeStreams"
    /\ pc' = "closeWait"
    /\ streams' = [stdin |-> "closed", stdout |-> "closed", stderr |-> "closed"]
    /\ stdout' = <<>>
    /\ UNCHANGED <<started, id, child, emitted, ctxDone, op, reqCtx,
                   expectedID, contentLength, ret, calls, writes, log, hist>>

\* return c.cmd.Wait(): blocks until the child is gone, nil for exit status 0
CloseWait ==
    /\ pc = "closeWait"
    /\ child \in {"exited", "killed"}
    /\ pc' = "done"
    /\ ret' = IF child = "exited" THEN Ok ELSE Fail(<<"wait", child>>)
    /\ UNCHANGED <<started, id, streams, stdout, child, emitted, ctxDone, op, reqCtx,
                   expectedID, contentLength, calls, writes, log, hist>>

\* ---------------------------------------------------------------- ReadResponse
InRead == pc \in {"check", "hdr", "body"}

\* the write end of the child's stdout is closed: reads hit EOF after the buffered bytes
AtEOF == child # "alive"

\* case <-ctx.Done()
CtxExpired(ctx, done) == ctx \in done

\* the test for a missing header is left out
NeverMissing(n) == FALSE

\* if contentLength == 0
MissingLength(n) == n = 0

\* the method member is not looked at
NeverNotification(content) == FALSE

\* a message with an id is not taken for a notification
NotificationWithoutID(content) == NotificationMethod(content) # "" /\ ~HasMember(content, "id")

\* if notification.Method != ""
IsNotification(content) == NotificationMethod(content) # ""

\* any message without a method is taken for the answer
MatchesAny(response, expected) == TRUE

\* an answer to an earlier request is taken as well
MatchesUpTo(response, expected) == response.ID <= expected

\* a message without an id is taken for the answer as well
MatchesOrUntied(response, expected) == response.ID = expected \/ response.ID = 0

\* if response.ID == expectedID
Matches(response, expected) == response.ID = expected

\* a failed read is tried again from the top of the loop
ReturnOrRetry(r) ==
    IF r.err = <<>>
    THEN ret' = r /\ pc' = AfterSendRequest(op)
    ELSE ret' = ret /\ pc' = "check"

Return(r) ==
    /\ ret' = r
    /\ pc' = AfterSendRequest(op)

\* the contexts made for one call ("call", and the 5s one of Close) are
\* cancelled by their owner when the call returns
Released(p, done) == IF p \in {"check", "hdr", "body", "panic"} THEN done ELSE done \ {"call", "close"}

\* top of the outer loop: the select on ctx.Done, then var contentLength int
ReadCheck ==
    /\ pc = "check"
    /\ IF CtxExpired(reqCtx, ctxDone)
       THEN /\ Return(Fail(<<"context deadline exceeded">>))
            /\ UNCHANGED <<contentLength, hist>>
       ELSE /\ pc' = "hdr"
            /\ contentLength' = 0
            /\ hist' = [hist EXCEPT !.seenCL = FALSE, !.block = <<>>]
            /\ UNCHANGED ret
    /\ ctxDone' = Released(pc', ctxDone)
    /\ UNCHANGED <<started, id, streams, stdout, child, emitted, op, reqCtx,
                   expectedID, calls, writes, log>>

\* one turn of the header loop: ReadString('\n'), TrimSpace, CutPrefix, Atoi,
\* and after the blank line the contentLength test and make([]byte, contentLength)
ReadHeaderLine ==
    /\ pc = "hdr"
    /\ LET i == IndexLF(stdout, 1)
           line == TrimSpace(SubSeq(stdout, 1, i))
           lengthStr == TrimSpace(CutPrefixCL(line))
       IN /\ i > 0 \/ AtEOF
          /\ IF i = 0
             THEN /\ stdout' = <<>>
                  /\ hist' = [hist EXCEPT !.taken = @ \o stdout]
                  /\ Return(Fail(<<"failed to read header line", "EOF">>))
                  /\ UNCHANGED contentLength
             ELSE /\ stdout' = Drop(stdout, i)
                  /\ IF line = <<>>
                     THEN /\ hist' = [hist EXCEPT !.taken = @ \o SubSeq(stdout, 1, i),
                                                       !.block = @ \o SubSeq(stdout, 1, i)]
                          /\ UNCHANGED contentLength
                          /\ IF MissingLength(contentLength)
                             THEN Return(Fail(<<"no Content-Length header found">>))
                             ELSE /\ pc' = IF contentLength < 0 THEN "panic" ELSE "body"
                                  /\ UNCHANGED ret
                     ELSE IF HasPrefixCL(line)
                     THEN IF AtoiOk(lengthStr)
                          THEN /\ contentLength' = Atoi(lengthStr)
                               /\ hist' = [hist EXCEPT !.taken = @ \o SubSeq(stdout, 1, i),
                                                       !.block = @ \o SubSeq(stdout, 1, i),
                                                       !.seenCL = TRUE]
                               /\ UNCHANGED <<pc, ret>>
                          ELSE /\ hist' = [hist EXCEPT !.taken = @ \o SubSeq(stdout, 1, i),
                                                       !.block = @ \o SubSeq(stdout, 1, i),
                                                       !.seenCL = TRUE]
                               /\ Return(Fail(<<"invalid Content-Length header", "strconv.Atoi">>))
                               /\ UNCHANGED contentLength
                     ELSE /\ hist' = [hist EXCEPT !.taken = @ \o SubSeq(stdout, 1, i),
                                                       !.block = @ \o SubSeq(stdout, 1, i)]
                          /\ UNCHANGED <<pc, ret, contentLength>>
    /\ ctxDone' = Released(pc', ctxDone)
    /\ UNCHANGED <<started, id, streams, child, emitted, op, reqCtx,
                   expectedID, calls, writes, log>>

\* io.ReadFull, json.Unmarshal, and the routing of the decoded message
ReadContent ==
    /\ pc = "body"
    /\ Len(stdout) >= contentLength \/ AtEOF
    /\ IF Len(stdout) < contentLength
       THEN /\ stdout' = <<>>
            /\ hist' = [hist EXCEPT !.taken = @ \o stdout]
            /\ Return(Fail(<<"failed to read response content",
                             IF stdout = <<>> THEN "EOF" ELSE "unexpected EOF">>))
            /\ UNCHANGED log
       ELSE LET content == SubSeq(stdout, 1, contentLength)
                response == Unmarshal(content)
                received == Append(log, Logged("Received LSP message", response.ID, ""))
            IN /\ stdout' = Drop(stdout, contentLength)
               /\ hist' = [hist EXCEPT !.taken = @ \o content]
               /\ IF ~UnmarshalOk(content)
                  THEN /\ Return(Fail(<<"failed to unmarshal response">>))
                       /\ UNCHANGED log
                  ELSE IF IsNotification(content)
                  THEN /\ pc' = "check"
                       /\ log' = Append(received, Logged("Received LSP notification", 0,
                                                         NotificationMethod(content)))
                       /\ UNCHANGED ret
                  ELSE IF Matches(response, expectedID)
                  THEN /\ Return(Got(response))
                       /\ log' = received
                  ELSE /\ pc' = "check"
                       /\ log' = Append(received, Logged("Received unexpected response ID",
                                                         response.ID, ""))
                       /\ UNCHANGED ret
    /\ ctxDone' = Released(pc', ctxDone)
    /\ UNCHANGED <<started, id, streams, child, emitted, op, reqCtx,
                   expectedID, contentLength, calls, writes>>

\* ---------------------------------------------------------------- environment
\* the read the client is in cannot proceed
ReadBlocked ==
    /\ child = "alive"
    /\ \/ pc = "hdr" /\ IndexLF(stdout, 1) = 0
       \/ pc = "body" /\ Len(stdout) < contentLength

\* The client is between two blocking calls.  The steps it takes there do not
\* wait for the child or the clock, and a move of the child or the clock made
\* there has the effect of the same move made just before the client's last
\* step, so the environment is left to move at the other positions only.
Running == pc \in {"check", "initResp", "closeExit", "closeStreams"}

\* a deadline elapses
Timeout(c) ==
    /\ c \notin ctxDone
    /\ \/ c = "session" /\ pc \in {"new", "idle", "hdr", "body"}
       \/ c = "call" /\ reqCtx = "call" /\ op # "Close" /\ pc \in {"hdr", "body"}
       \/ c = "close" /\ op = "Close" /\ pc \in {"hdr", "body"}
    /\ ctxDone' = ctxDone \cup {c}
    /\ hist' = [hist EXCEPT !.expiredInRead = @ \/ (c = reqCtx /\ ReadBlocked)]
    /\ UNCHANGED <<started, id, streams, stdout, child, emitted, op, pc, reqCtx,
                   expectedID, contentLength, ret, calls, writes, log>>

\* os/exec kills the process started with exec.CommandContext once that context is done
CtxKill ==
    /\ ~Running
    /\ pc # "exited"
    /\ child = "alive"
    /\ "session" \in ctxDone
    /\ child' = "killed"
    /\ UNCHANGED <<started, id, streams, stdout, emitted, ctxDone, op, pc, reqCtx,
                   expectedID, contentLength, ret, calls, writes, log, hist>>

\* the child is inside a write to its stderr that cannot complete: the pipe
\* made by cmd.StderrPipe is full, and the client has no statement that reads
\* c.stderr
ChildBlocked == child = "alive" /\ streams.stderr = "full"

\* The child writes diagnostics to its stderr, more than the pipe holds, while
\* the client waits for it.
ChildDiagnostics ==
    /\ pc \in {"hdr", "body"}
    /\ child = "alive"
    /\ streams.stderr = "open"
    /\ streams' = [streams EXCEPT !.stderr = "full"]
    /\ UNCHANGED <<started, id, stdout, child, emitted, ctxDone, op, pc, reqCtx,
                   expectedID, contentLength, ret, calls, writes, log, hist>>

\* The child writes to its stdout.  The pipe keeps what is written until it
\* is read, so what the child writes while the client is not in a read has
\* the effect of the same bytes written once the next read has begun, and
\* what it writes after the last read is never seen.
ChildEmit(chunk) ==
    /\ pc \in {"hdr", "body"}
    /\ child = "alive"
    /\ ~ChildBlocked
    /\ streams.stdout = "open"
    /\ emitted < MaxEmit
    /\ emitted' = emitted + 1
    /\ stdout' = stdout \o chunk
    /\ UNCHANGED <<started, id, streams, child, ctxDone, op, pc, reqCtx,
                   expectedID, contentLength, ret, calls, writes, log, hist>>

ChildExit ==
    /\ ~Running
    /\ child = "alive"
    /\ ~ChildBlocked
    /\ child' = "exited"
    /\ UNCHANGED <<started, id, streams, stdout, emitted, ctxDone, op, pc, reqCtx,
                   expectedID, contentLength, ret, calls, writes, log, hist>>

\* ---------------------------------------------------------------- specification
Next ==
    \/ \E failure \in SpawnSteps \cup {"none"} : NewLSPClient(failure)
    \/ \E ctx \in {"session", "call"} : CallSendRequest(ctx, "val")
    \/ CallSendRequest("session", "bad")
    \/ \E params \in {"text", "bad"} : SendNotification("textDocument/didOpen", params)
    \/ Initialize("session")
    \/ InitializeFinish
    \/ Close
    \/ CloseExit
    \/ CloseStreams
    \/ CloseWait
    \/ ReadCheck
    \/ ReadHeaderLine
    \/ ReadContent
    \/ \E c \in Ctxs : Timeout(c)
    \/ CtxKill
    \/ \E chunk \in ChildChunks : ChildEmit(chunk)
    \/ ChildExit

Spec == Init /\ [][Next]_vars

\* ---------------------------------------------------------------- main
\* main holds the client between NewLSPClient and the request it is run for
BeforeRequest ==
    \/ op = "NewLSPClient" /\ pc = "idle"
    \/ op = "Initialize" /\ pc = "done" /\ ret.err = <<>>

\* if !*skipInit { client.Initialize(ctx, rootURIValue) }
MainInitialize ==
    /\ op = "NewLSPClient" /\ pc = "idle"
    /\ InitializeCall("session")

\* client.SendRequest(ctx, *method, params), after -skip-init or Initialize
MainSendRequest(params) ==
    /\ BeforeRequest
    /\ SendRequestCall("session", "textDocument/hover", params)

\* the logger.Error line of the failure main stops at, "" when there is none;
\* paramsOk tells whether -params or -params-file could be read and parsed
MainFailure(paramsOk) ==
    IF pc = "failed" THEN "Failed to start LSP server"
    ELSE IF op = "Initialize" /\ pc = "done" /\ ret.err # <<>> THEN "Failed to initialize LSP server"
    ELSE IF op = "SendRequest" /\ pc = "done" /\ ret.err # <<>> THEN "Failed to send request"
    ELSE IF BeforeRequest /\ ~paramsOk THEN "Failed to parse params JSON"
    ELSE ""

\* logger.Error(...); os.Exit(1): the process ends at once, deferred calls
\* do not run, and its ends of the pipes are closed with it
MainExit(paramsOk) ==
    /\ MainFailure(paramsOk) # ""
    /\ pc' = "exited"
    /\ log' = Append(log, Logged(MainFailure(paramsOk), 0, ""))
    /\ streams' = IF started THEN [stdin |-> "closed", stdout |-> "closed", stderr |-> "closed"]
                   ELSE streams
    /\ stdout' = <<>>
    /\ UNCHANGED <<started, id, child, emitted, ctxDone, op, reqCtx,
                   expectedID, contentLength, ret, calls, writes, hist>>

\* printResponse, then main returns and the deferred client.Close() runs
MainReturn ==
    /\ op = "SendRequest" /\ pc = "done" /\ ret.err = <<>>
    /\ Close

\* the deferred function after Close returned: logger.Warn on an error; the
\* process ends
MainEnd ==
    /\ op = "Close" /\ pc = "done"
    /\ pc' = "exited"
    /\ log' = IF ret.err # <<>> THEN Append(log, Logged("Failed to close LSP client", 0, ""))
               ELSE log
    /\ UNCHANGED <<started, id, streams, stdout, child, emitted, ctxDone, op, reqCtx,
                   expectedID, contentLength, ret, calls, writes, hist>>

NextMain ==
    \/ \E failure \in SpawnSteps \cup {"none"} : NewLSPClient(failure)
    \/ MainInitialize
    \/ InitializeFinish
    \/ \E params \in {"nil", "val"} : MainSendRequest(params)
    \/ \E paramsOk \in BOOLEAN : MainExit(paramsOk)
    \/ MainReturn
    \/ CloseExit
    \/ CloseStreams
    \/ CloseWait
    \/ MainEnd
    \/ ReadCheck
    \/ ReadHeaderLine
    \/ ReadContent
    \/ Timeout("session")
    \/ Timeout("close")
    \/ CtxKill
    \/ \E chunk \in ChildChunks : ChildEmit(chunk)
    \/ ChildDiagnostics
    \/ ChildExit

\* the program: main from its first statement to the end of the process
SpecMain == Init /\ [][NextMain]_vars

\* The session against a child whose output is drawn from ReadChunks: one
\* request, then Close with its shutdown request.
NextRead ==
    \/ NewLSPClient("none")
    \/ CallSendRequest("session", "val")
    \/ Close
    \/ CloseExit
    \/ CloseStreams
    \/ CloseWait
    \/ ReadCheck
    \/ ReadHeaderLine
    \/ ReadContent
    \/ Timeout("session")
    \/ CtxKill
    \/ \E chunk \in ReadChunks : ChildEmit(chunk)
    \/ ChildExit

SpecRead == Init /\ [][NextRead]_vars

\* what the child of SpecCalls writes: answers, and a message without Content-Length
CallChunks ==
    {Framed(ResultBody(i)) : i \in ChildIds} \cup {Frame(<<OtherLine>>, ResultBody(1))}

\* The calls of a session with each of their outcomes: a request that cannot
\* be serialized, a write to a child that is gone, a message that breaks the
\* framing, an elapsed deadline, an answer.
NextCalls ==
    \/ NewLSPClient("none")
    \/ \E params \in {"val", "bad"} : CallSendRequest("session", params)
    \/ SendNotification("textDocument/didOpen", "text")
    \/ Close
    \/ CloseExit
    \/ CloseStreams
    \/ CloseWait
    \/ ReadCheck
    \/ ReadHeaderLine
    \/ ReadContent
    \/ Timeout("session")
    \/ CtxKill
    \/ \E chunk \in CallChunks : ChildEmit(chunk)
    \/ ChildExit

SpecCalls == Init /\ [][NextCalls]_vars

\* A client made with a context that has no deadline, as NewLSPClient allows:
\* one request, then Close.  The client's goroutine takes its next step
\* whenever it has one, and the 5 seconds of Close pass; the child is free
\* to stay alive and write nothing.
ClientStep ==
    \/ ReadCheck
    \/ ReadHeaderLine
    \/ ReadContent
    \/ CloseExit
    \/ CloseStreams
    \/ CloseWait

NextLive ==
    \/ NewLSPClient("none")
    \/ CallSendRequest("session", "val")
    \/ Close
    \/ ClientStep
    \/ Timeout("close")
    \/ \E chunk \in ChildChunks : ChildEmit(chunk)
    \/ ChildExit

SpecLive ==
    /\ Init
    /\ [][NextLive]_vars
    /\ WF_vars(ClientStep)
    /\ WF_vars(Timeout("close"))

\* ---------------------------------------------------------------- properties
\* a SendRequest has returned and nothing has run since
Returned ==
    \/ pc = "done" /\ op = "SendRequest"
    \/ pc = "initResp"
    \/ pc = "closeExit"

\* the writes that carry an id, in order
Requests == SelectSeq(writes, LAMBDA w : w.hasID)
LastWrite == writes[Len(writes)]

\* the JSON body of a write: what follows the header block
BodyOf(w) == Drop(w.bytes, Len(w.bytes) - Atoi(SubSeq(w.bytes, 3, IndexLF(w.bytes, 1) - 2)))

\* C1: the k-th SendRequest call of a session (those made by Initialize and
\* Close included) takes id k, and the ids written to the child are strictly
\* increasing, each equal to the id its call took.
C1_IdsAreCallOrder ==
    /\ \A k \in 1..Len(hist.assigned) : hist.assigned[k] = k
    /\ started => id = Len(hist.assigned) + 1
    /\ \A i, j \in 1..Len(Requests) : i < j => Requests[i].id < Requests[j].id
    /\ \A i \in 1..Len(Requests) :
           /\ Requests[i].id \in 1..Len(hist.assigned)
           /\ HasMember(BodyOf(Requests[i]), "id")
           /\ Member(BodyOf(Requests[i]), "id").n = Requests[i].id

\* two calls made and both written, with a notification between them
C1_Witness ==
    /\ Len(hist.assigned) >= 2
    /\ Len(Requests) = Len(hist.assigned)
    /\ \A i \in 1..Len(Requests) : Requests[i].ok
    /\ Len(writes) > Len(Requests)

\* C2: a response SendRequest returns carries the id of the request that
\* this call wrote, whatever the child emitted.
C2_ReturnedIdIsRequestId ==
    (Returned /\ ret.hasResp) =>
        /\ ret.resp.ID = expectedID
        /\ Requests # <<>>
        /\ Requests[Len(Requests)].id = ret.resp.ID
        /\ Requests[Len(Requests)].ok

\* an error response returned after another message was read and dropped
C2_Witness ==
    /\ Returned /\ ret.hasResp /\ ret.resp.Error.set
    /\ hist.taken # Framed(ErrorBody(expectedID))

IsPrefix(p, q) == Len(p) <= Len(q) /\ SubSeq(q, 1, Len(p)) = p

\* what the child's output has offered to the ReadResponse in progress
Presented == hist.taken \o stdout

RECURSIVE NotificationFrames(_)
NotificationFrames(k) ==
    IF k = 0 THEN <<>> ELSE Framed(NotificationBody) \o NotificationFrames(k - 1)

\* k notifications, then an answer to the pending request
PresentsReplyAfter(k, body) ==
    /\ body \in {ResultBody(expectedID), ErrorBody(expectedID)}
    /\ IsPrefix(NotificationFrames(k) \o Framed(body), Presented)

\* the log lines of the current SendRequest that report a skipped notification
SkippedLines(l) ==
    SelectSeq(SubSeq(l, hist.logStart + 1, Len(l)),
              LAMBDA e : e.msg = "Received LSP notification")

ReplyBodies == {ResultBody(i) : i \in 1..(MaxCalls + 1)} \cup {ErrorBody(i) : i \in 1..(MaxCalls + 1)}

\* C3 as stated: whenever the output presents notifications followed by the
\* matching response, the step on which SendRequest returns returns that response.
C3_AsStated ==
    [][\A k \in 0..MaxEmit, body \in ReplyBodies :
          (InRead /\ ~InRead' /\ PresentsReplyAfter(k, body))
              => ret' = Got(Unmarshal(body))]_vars

\* C3: when the output presents k notifications followed by the matching
\* response, SendRequest returns that response after logging and skipping
\* each of the k notifications, or it returns the context's error because a
\* deadline check at the top of the receive loop found the context done.
C3_ReplyAfterNotifications ==
    [][\A k \in 0..MaxEmit, body \in ReplyBodies :
          (InRead /\ ~InRead' /\ PresentsReplyAfter(k, body))
              => \/ /\ ret' = Got(Unmarshal(body))
                    /\ Len(SkippedLines(log')) = k
                    /\ \A i \in 1..k :
                           SkippedLines(log')[i].s = "textDocument/publishDiagnostics"
                    /\ hist'.taken = NotificationFrames(k) \o Framed(body)
                 \/ /\ ret' = Fail(<<"context deadline exceeded">>)
                    /\ CtxExpired(reqCtx, ctxDone)]_vars

C3_Witness ==
    /\ Returned /\ ret.hasResp
    /\ hist.taken = NotificationFrames(1) \o Framed(ResultBody(expectedID))
    /\ Len(SkippedLines(log)) = 1

\* a client step that is a SendNotification: the exported call, the
\* "initialized" of Initialize, the "exit" of Close
NotificationStep ==
    \/ op' = "SendNotification" /\ calls' = calls + 1
    \/ pc = "initResp" /\ pc' = "done" /\ ret.err = <<>> /\ ~ret.resp.Error.set
    \/ pc = "closeExit" /\ pc' = "closeStreams"

\* C4: SendNotification writes at most one message, and that message has no
\* id member; it takes nothing from the child's output and leaves the
\* next-id counter alone, so no id is assigned, whether it returns an error or not.
C4_NotificationFrame ==
    [][NotificationStep =>
          /\ id' = id
          /\ hist'.assigned = hist.assigned
          /\ stdout' = stdout
          /\ hist'.taken = hist.taken
          /\ \/ writes' = writes
             \/ /\ Len(writes') = Len(writes) + 1
                /\ SubSeq(writes', 1, Len(writes)) = writes
                /\ ~writes'[Len(writes')].hasID
                /\ ValidJSON(BodyOf(writes'[Len(writes')]))
                /\ ~HasMember(BodyOf(writes'[Len(writes')]), "id")]_vars

\* a notification written between the requests with ids 1 and 2
C4_Witness ==
    \E i, j, k \in 1..Len(writes) :
        /\ i < j /\ j < k
        /\ writes[i].hasID /\ writes[i].id = 1
        /\ ~writes[j].hasID /\ writes[j].ok
        /\ writes[k].hasID /\ writes[k].id = 2

\* C5: Initialize returns nil only after it wrote "initialized", a message
\* without id, right after the "initialize" request on the wire; while the
\* answer to "initialize" has not been taken, "initialized" is not written.
C5_InitializedBeforeSuccess ==
    /\ (op = "Initialize" /\ pc = "done" /\ ret.err = <<>>) =>
           /\ Len(writes) >= 2
           /\ LastWrite.method = "initialized" /\ ~LastWrite.hasID /\ LastWrite.ok
           /\ ~HasMember(BodyOf(LastWrite), "id")
           /\ writes[Len(writes) - 1].method = "initialize"
           /\ writes[Len(writes) - 1].hasID /\ writes[Len(writes) - 1].ok
           /\ writes[Len(writes) - 1].id = expectedID
    /\ (op = "Initialize" /\ pc \in {"check", "hdr", "body", "initResp"}) =>
           LastWrite.method = "initialize"
    /\ \A i \in 1..Len(writes) :
           writes[i].method = "initialized" =>
               i > 1 /\ writes[i - 1].method = "initialize" /\ writes[i - 1].ok

C5_Witness ==
    /\ op = "Initialize" /\ pc = "done" /\ ret.err = <<>>
    /\ hist.taken = Framed(ResultBody(expectedID))

\* C6: when the answer to "initialize" carries an error, Initialize returns
\* an error made of that error's code and message and writes nothing; when
\* the "initialize" request failed, Initialize returns that failure wrapped
\* and writes nothing.
C6_InitializeFailure ==
    [][(pc = "initResp" /\ pc' # pc) =>
          /\ (ret.err # <<>>) =>
                 /\ ret'.err = <<"failed to send initialize request">> \o ret.err
                 /\ writes' = writes
          /\ (ret.err = <<>> /\ ret.resp.Error.set) =>
                 /\ ret'.err = <<"LSP initialize error">>
                 /\ ret'.resp.Error.Code = ret.resp.Error.Code
                 /\ ret'.resp.Error.Message = ret.resp.Error.Message
                 /\ writes' = writes]_vars

C6_Witness ==
    /\ op = "Initialize" /\ pc = "done"
    /\ ret.err = <<"LSP initialize error">>
    /\ ret.resp.Error = JSONRPCError(0 - 32601, "Method not found")
    /\ LastWrite.method = "initialize"

AllClosed == streams = [stdin |-> "closed", stdout |-> "closed", stderr |-> "closed"]
NoneClosed == streams.stdin # "closed" /\ streams.stdout # "closed" /\ streams.stderr # "closed"

\* C7: Close writes "shutdown" and waits for the outcome of that request,
\* then writes "exit", then closes the three streams, then waits for the
\* child and returns the status of that wait.
C7_CloseOrder ==
    /\ \A i \in 1..Len(writes) :
           writes[i].method = "exit" =>
               /\ i > 1
               /\ writes[i - 1].method = "shutdown"
               /\ i = Len(writes)
    /\ (op = "Close" /\ (InRead \/ pc = "closeExit")) =>
           LastWrite.method = "shutdown" /\ NoneClosed
    /\ ~NoneClosed => AllClosed /\ LastWrite.method = "exit"
    /\ (op = "Close" /\ pc = "closeStreams") => LastWrite.method = "exit" /\ NoneClosed
    /\ (op = "Close" /\ pc = "closeWait") => AllClosed
    /\ (op = "Close" /\ pc = "done") =>
           /\ AllClosed
           /\ child # "alive"
           /\ ret = IF child = "exited" THEN Ok ELSE Fail(<<"wait", child>>)

\* Close ran to its end against a child that answered the shutdown request
C7_Witness ==
    /\ op = "Close" /\ pc = "done" /\ ret = Ok
    /\ hist.taken = Framed(ResultBody(expectedID))
    /\ LastWrite.ok
    /\ writes[Len(writes) - 1].ok

\* the log lines the client writes when nothing failed
RoutineLines ==
    {"Sending LSP request", "Sending LSP notification", "Received LSP message",
     "Received LSP notification", "Received unexpected response ID"}

\* the exit notification could not be written
ExitFailed == LastWrite.method = "exit" /\ ~LastWrite.ok

\* C8 as stated: once Close is past its shutdown and exit steps, a failure
\* of either step has left a line in the log, the exit notification was
\* attempted, and what Close returns is the status of the wait.
C8_AsStated ==
    /\ (op = "Close" /\ pc \in {"closeStreams", "closeWait"} /\ (ret.err # <<>> \/ ExitFailed)) =>
           /\ LastWrite.method = "exit"
           /\ \E i \in (hist.logStart + 1)..Len(log) : log[i].msg \notin RoutineLines
    /\ (op = "Close" /\ pc = "done") =>
           /\ AllClosed
           /\ ret \in {Ok, Fail(<<"wait", "killed">>)}

\* the part of C8 that the code keeps: exit is attempted and the streams are
\* closed whatever the shutdown request returned, and Close returns the
\* status of the wait, never the error of the shutdown or exit step
C8_NotPropagated ==
    /\ (op = "Close" /\ pc \in {"closeStreams", "closeWait"}) => LastWrite.method = "exit"
    /\ (op = "Close" /\ pc = "done") =>
           /\ AllClosed
           /\ LastWrite.method = "exit"
           /\ ret = IF child = "exited" THEN Ok ELSE Fail(<<"wait", child>>)

\* C9 as stated: when the deadline of a SendRequest elapsed while its read
\* was blocked on a child that has not sent a byte, what SendRequest returns
\* is the deadline error.
C9_AsStated ==
    (Returned /\ hist.expiredInRead /\ emitted = 0) =>
        ret = Fail(<<"context deadline exceeded">>)

\* the reader step that takes the line ending a header block
BlankLineStep ==
    /\ pc = "hdr"
    /\ hist'.taken # hist.taken
    /\ IndexLF(stdout, 1) > 0
    /\ TrimSpace(SubSeq(stdout, 1, IndexLF(stdout, 1))) = <<>>

\* C10: when the blank line ends a header block in which no Content-Length
\* line was read, the read fails with "no Content-Length header found" and
\* nothing after the blank line is taken from the stream.
C10_NoContentLength ==
    [][(BlankLineStep /\ ~hist.seenCL) =>
          /\ ret' = Fail(<<"no Content-Length header found">>)
          /\ pc' = AfterSendRequest(op)
          /\ stdout' = Drop(stdout, IndexLF(stdout, 1))
          /\ hist'.taken = hist.taken \o SubSeq(stdout, 1, IndexLF(stdout, 1))]_vars

\* a block with only Content-Type was read and its body is still in the stream
C10_Witness ==
    /\ Returned
    /\ ret = Fail(<<"no Content-Length header found">>)
    /\ hist.taken = HeaderBlock(<<OtherLine>>)
    /\ IsPrefix(ResultBody(1), stdout)

\* the line, with its line ending, as the reader takes it from the stream
Line(l) == l \o <<CR, LF>>

\* C11 as stated: a header block whose only line is Content-Length: 0 makes
\* the reader decode a body of zero bytes, so that the read fails with the
\* error of the JSON decoder and not with the error of a missing header.
C11_AsStated ==
    (Returned /\ hist.block = HeaderBlock(<<CLLine(0)>>)) =>
        ret = Fail(<<"failed to unmarshal response">>)

\* C12 as stated: a Content-Length value that is not a number, or is
\* negative, makes the read return the invalid-header error; the client
\* does not crash.
C12_AsStated ==
    /\ pc # "panic"
    /\ (Returned /\ hist.block \in {Line(BadLengthLine), Line(NegLengthLine)}) =>
           ret = Fail(<<"invalid Content-Length header", "strconv.Atoi">>)

\* the part of C12 that the code keeps: a value that is not a number makes
\* the read return the invalid-header error, and nothing after that line is taken
C12_NotANumber ==
    (Returned /\ hist.block = Line(BadLengthLine)) =>
        /\ ret = Fail(<<"invalid Content-Length header", "strconv.Atoi">>)
        /\ IsPrefix(<<CR, LF>>, stdout)

\* the lengths of the bodies the child frames
BodyLengths == {Len(ResultBody(1)), Len(ServerRequestBody(1)), Len(EmptyReplyBody(1))}

\* C13: when the stream holds a header block with Content-Length: n once and
\* other header lines before or after it, the reader leaves the header loop
\* as it does for the block with only Content-Length: n: it has taken the
\* block and no more, and is about to read n bytes of content, with no
\* error; a matching response framed with such a block is the response
\* returned, unless the deadline check ends the call first.
C13_OtherHeadersIgnored ==
    [][\A n \in BodyLengths : \A lines \in HeaderVariants(n) :
          /\ (pc = "hdr" /\ pc' # "hdr" /\ IsPrefix(HeaderBlock(lines), hist.block \o stdout)) =>
                 /\ pc' = "body"
                 /\ contentLength' = n
                 /\ ret' = ret
                 /\ hist'.block = HeaderBlock(lines)
                 /\ hist'.block \o stdout' = hist.block \o stdout
          /\ (InRead /\ ~InRead' /\ n = Len(ResultBody(expectedID))
                /\ IsPrefix(Frame(lines, ResultBody(expectedID)), Presented)) =>
                 \/ /\ ret' = Got(Unmarshal(ResultBody(expectedID)))
                    /\ hist'.taken = Frame(lines, ResultBody(expectedID))
                 \/ /\ ret' = Fail(<<"context deadline exceeded">>)
                    /\ CtxExpired(reqCtx, ctxDone)]_vars

\* a response framed with Content-Type before or after Content-Length was returned
C13_Witness ==
    /\ Returned /\ ret = Got(Unmarshal(ResultBody(expectedID)))
    /\ hist.taken \in {Frame(l, ResultBody(expectedID)) :
                          l \in HeaderVariants(Len(ResultBody(expectedID))) \ {<<CLLine(Len(ResultBody(expectedID)))>>}}

\* the header block of a write and what follows it
HeaderOf(w) == SubSeq(w.bytes, 1, IndexLF(w.bytes, 1) + 2)
ContentOf(w) == Drop(w.bytes, IndexLF(w.bytes, 1) + 2)

\* C14: the write made last (every write is the last one in the state its
\* step leads to) is "Content-Length: N", CRLF, CRLF and a JSON object of
\* exactly N bytes, N in decimal; the object has jsonrpc "2.0" and the
\* method of the call; a request has its id as a member, a notification
\* has no id member.
C14_WrittenFrame ==
    writes # <<>> =>
        LET w == LastWrite
            eol == IndexLF(w.bytes, 1)
            digits == SubSeq(w.bytes, 3, eol - 2)
            body == ContentOf(w)
        IN /\ eol > 4
           /\ SubSeq(w.bytes, 1, 2) = <<CL, SP>>
           /\ AllDigits(digits)
           /\ HeaderOf(w) = <<CL, SP>> \o digits \o <<CR, LF, CR, LF>>
           /\ DigitsValue(digits) = Len(body)
           /\ ValidJSON(body)
           /\ HasMember(body, "jsonrpc") /\ Member(body, "jsonrpc").s = "2.0"
           /\ HasMember(body, "method") /\ Member(body, "method").s = w.method
           /\ w.hasID => HasMember(body, "id") /\ Member(body, "id") = Field("id", w.id, "int")
           /\ ~w.hasID => ~HasMember(body, "id")

\* a notification whose text has a character of two bytes, and a request
C14_Witness ==
    \E i, j \in 1..Len(writes) :
        /\ ~writes[i].hasID /\ writes[i].ok
        /\ CharLen(ContentOf(writes[i])) < Len(ContentOf(writes[i]))
        /\ writes[j].hasID /\ writes[j].ok

\* C15 as stated: when the deadline of a pending request has elapsed while
\* its read was blocked, the child is not killed as long as Close has not
\* been called.
C15_AsStated ==
    (hist.expiredInRead /\ op # "Close") => child # "killed"

\* C17: when a pipe cannot be opened or the child cannot be started,
\* NewLSPClient returns an error and no client: no child runs, no stream
\* is held, and nothing is written or read for that attempt, ever.
C17_SpawnFailure ==
    (hist.spawn \in SpawnSteps \/ pc = "failed") =>
        /\ pc = "failed"
        /\ ~started
        /\ ret.err # <<>> /\ ~ret.hasResp
        /\ child = "none"
        /\ streams = [stdin |-> "none", stdout |-> "none", stderr |-> "none"]
        /\ writes = <<>> /\ log = <<>> /\ hist.assigned = <<>> /\ hist.taken = <<>>

\* the pipe for the child's stderr could not be opened
C17_Witness ==
    /\ hist.spawn = "StderrPipe"
    /\ op = "NewLSPClient" /\ ret = Fail(<<"StderrPipe">>)

\* a write of the given method, in the order of the writes
WroteBefore(m1, m2) ==
    \E i, j \in 1..Len(writes) : i < j /\ writes[i].method = m1 /\ writes[j].method = m2

\* C16 as stated: when the process of a run that spawned the server has
\* ended, the client has written the shutdown request and after it the exit
\* notification.
C16_AsStated ==
    (pc = "exited" /\ started) => WroteBefore("shutdown", "exit")

\* the part of C16 that the code keeps: a run that ends by returning from
\* main, after a request that succeeded, has written shutdown and then exit
C16_OnReturn ==
    (pc = "exited" /\ op = "Close") =>
        /\ Len(writes) >= 2
        /\ writes[Len(writes) - 1].method = "shutdown"
        /\ LastWrite.method = "exit"

\* the reader is about to take a whole message that decodes
TakesMessage ==
    /\ pc = "body"
    /\ pc' # "body"
    /\ Len(stdout) >= contentLength
    /\ UnmarshalOk(SubSeq(stdout, 1, contentLength))

\* that message
Incoming == SubSeq(stdout, 1, contentLength)

C20_AsStated ==
    (Returned /\ ret.hasResp) => ((ret.resp.Result # "null") # ret.resp.Error.set)

\* C21: after a header block with Content-Length N > 0 the reader takes
\* exactly the next N bytes as the body, so the header of the following
\* message is read from the byte right after them; N bytes that are not
\* valid JSON end the call with an unmarshal error, and a stream that ends
\* before N bytes end it with a read error, no message being returned.
C21_ExactBody ==
    [][(pc = "body" /\ pc' # "body") =>
          /\ contentLength > 0
          /\ IF Len(stdout) >= contentLength
             THEN /\ stdout' = SubSeq(stdout, contentLength + 1, Len(stdout))
                  /\ hist'.taken = hist.taken \o SubSeq(stdout, 1, contentLength)
                  /\ ~ValidJSON(Incoming) =>
                        /\ ret' = Fail(<<"failed to unmarshal response">>)
                        /\ pc' = AfterSendRequest(op)
             ELSE /\ AtEOF
                  /\ ret'.err[1] = "failed to read response content"
                  /\ ~ret'.hasResp
                  /\ pc' = AfterSendRequest(op)]_vars

\* an answer to another request was dropped, the next header was read right
\* after it, and the child went away inside the body that followed
C21_Witness ==
    /\ Returned /\ expectedID = 1
    /\ ret = Fail(<<"failed to read response content", "unexpected EOF">>)
    /\ hist.taken = Framed(ResultBody(2)) \o Frame(<<CLLine(Len(ResultBody(1)))>>, ShortBody)

\* a SendRequest returns with this step
SendRequestEnds ==
    /\ InRead \/ hist'.assigned # hist.assigned
    /\ pc' = AfterSendRequest(op)

C25_CounterAdvances ==
    [][/\ hist'.assigned # hist.assigned =>
             /\ hist'.assigned = Append(hist.assigned, id)
             /\ id' = id + 1
       /\ (hist'.assigned = hist.assigned /\ started) => id' = id
       /\ id' >= id
       /\ \A i, j \in 1..Len(hist.assigned) :
              hist.assigned[i] = hist.assigned[j] => i = j]_vars

\* the first call took id 1 and could not be serialized; the shutdown
\* request after it took id 2 and its write failed
C25_Witness ==
    /\ op = "Close" /\ Returned
    /\ hist.assigned = <<1, 2>> /\ id = 3
    /\ Len(writes) = 1 /\ LastWrite.id = 2 /\ ~LastWrite.ok
    /\ ret = Fail(<<"failed to write request", "EPIPE">>)

\* C26: a SendRequest whose write fails returns the write error with that
\* step: it does not enter the receive loop and takes no byte of the
\* child's output, so what is buffered there stays for the next read.
C26_WriteFailureSkipsRead ==
    [][(hist'.assigned # hist.assigned /\ writes' # writes
          /\ ~(streams.stdin = "open" /\ child = "alive")) =>
             /\ ret' = Fail(<<"failed to write request", "EPIPE">>)
             /\ pc' = AfterSendRequest(op')
             /\ ~InRead'
             /\ stdout' = stdout
             /\ hist'.taken = <<>>]_vars

\* the child answered twice and went away; the shutdown request could not be
\* written and the second answer is still in the stream
C26_Witness ==
    /\ op = "Close" /\ Returned
    /\ ret = Fail(<<"failed to write request", "EPIPE">>)
    /\ stdout = Framed(ResultBody(1))

\* the message has no id member, or its id is null or 0
Untied(content) ==
    \/ ~HasMember(content, "id")
    \/ Member(content, "id").s = "null"
    \/ Member(content, "id").n = 0

\* C27: the id a SendRequest waits for is at least 1, and a decoded
\* message without method whose id is absent, null or 0 is dropped: nothing
\* is returned, the same id stays awaited and the loop goes back to its
\* top.
C27_UntiedDiscarded ==
    [][/\ InRead => expectedID >= 1
       /\ (TakesMessage /\ NotificationMethod(Incoming) = "" /\ Untied(Incoming)) =>
             /\ Unmarshal(Incoming).ID = 0
             /\ pc' = "check"
             /\ ret' = ret
             /\ expectedID' = expectedID]_vars

\* an error without id and an answer without id were dropped while the
\* request was pending, and the call is waiting for more
C27_Witness ==
    /\ op = "SendRequest" /\ pc = "hdr" /\ ReadBlocked
    /\ hist.taken = Framed(UntiedErrorBody) \o Framed(NoIdBody)

\* the deadline check at the top of the receive loop ends the call
DeadlineReturn == ret' = Fail(<<"context deadline exceeded">>) /\ ~InRead'

\* C23 as stated: the wait for the answer to shutdown inside Close ends
\* at the deadline check exactly when the deadline of the session has
\* elapsed.
C23_AsStated ==
    [][(op = "Close" /\ pc = "check" /\ pc' # pc) =>
          (DeadlineReturn <=> "session" \in ctxDone)]_vars

\* C23: main runs NewLSPClient, Initialize and the request under the
\* deadline of the session; Close sends shutdown under a context of its
\* own that has not elapsed when Close begins, whatever the state of the
\* session's, and the deadline check of each SendRequest looks at the
\* context the request was sent under and at no other.
C23_CloseOwnBudget ==
    [][/\ hist'.assigned # hist.assigned =>
             /\ reqCtx' = IF op' = "Close" THEN "close" ELSE "session"
             /\ op' = "Close" => "close" \notin ctxDone'
       /\ (pc = "check" /\ pc' # pc) => (DeadlineReturn <=> reqCtx \in ctxDone)]_vars

\* the wait for the answer to shutdown ended on the budget of Close while
\* the deadline of the session had not elapsed
C23_Witness ==
    /\ op = "Close" /\ pc = "closeExit"
    /\ ret = Fail(<<"context deadline exceeded">>)
    /\ "session" \notin ctxDone

\* C24 as stated: the client drains the child's stderr, so a request is
\* never left waiting for a child that is held up in a write to that
\* stream.
C24_AsStated ==
    ~(op \in {"Initialize", "SendRequest"} /\ InRead /\ ReadBlocked /\ ChildBlocked)

\* C28 as stated: a Close that waits for the answer to shutdown stops
\* waiting, at the latest when its 5 seconds have passed, and goes on to
\* send exit and close the streams.
C28_AsStated ==
    (op = "Close" /\ InRead) ~> (op = "Close" /\ pc \in {"closeWait", "done"})

====
